---- MODULE Spec2Model ----
(***************************************************************************)
(* LeadWell: the availability slot calculator (services/calendar.js), the  *)
(* meeting booking route (routes/scheduling.js) and the inbound message    *)
(* pipeline (services/conversation.js), as state machines.                 *)
(*                                                                         *)
(* Time is counted in minutes. Day 0 is a Monday; day i starts at minute   *)
(* i * MinutesPerDay. The time zone of a request is one without a clock    *)
(* change inside the requested range.                                      *)
(***************************************************************************)
EXTENDS Integers, Sequences, FiniteSets, TLC

VARIABLES
    slotReq,    \* the arguments of the suggestTimeSlots call and the calendar's busy list
    slotPc,     \* "call" | "done" | "error"
    slotOut,    \* availableSlots, the value suggestTimeSlots returns
    leadStatus, \* leads.status, per lead
    credentials,\* the user's calendar_integrations row, or null
    calendar,   \* the busy intervals of the user's remote calendar
    events,     \* the events created in the remote calendar through the API
    meetings,   \* the meetings table
    book,       \* the POST /meetings requests in flight: locals and position
    puts,       \* how many PUT /leads/:id requests have run
    conversations, \* the conversations table, in creation order
    messages,   \* the messages table, in creation order
    qualification, \* additional_info.qualification_data, per lead
    generated,  \* the instruction sequences handed to the text generator
    sent,       \* the messages handed to the messaging gateway
    inb,        \* the inbound webhook requests: locals and position of each pipeline
    started     \* the conversation-start requests that have run, with their outcome

slotVars == <<slotReq, slotPc, slotOut>>
bookVars == <<leadStatus, credentials, calendar, events, meetings, book, puts>>
inbVars == <<conversations, messages, qualification, generated, sent, inb, started>>

vars == <<slotReq, slotPc, slotOut, leadStatus, credentials, calendar, events, meetings,
          book, puts, conversations, messages, qualification, generated, sent, inb,
          started>>

(***************************************************************************)
(* Bounds of the model.                                                    *)
(***************************************************************************)
MaxDays == 2        \* longest requested date range, in days
MaxDurSteps == 3    \* durations are 15, 30, ... 15 * MaxDurSteps minutes
MaxHours == 2       \* longest business-hours list
MaxBusy == 1        \* most busy intervals the calendar reports
MaxBookings == 2    \* POST /meetings requests, possibly concurrent
MaxPuts == 1        \* PUT /leads/:id requests
MaxInbound == 2     \* inbound webhook deliveries, one after the other
MaxSeed == 21       \* messages of the longest conversation that exists at the start

MinutesPerDay == 1440

DayNames == <<"monday", "tuesday", "wednesday", "thursday", "friday", "saturday", "sunday">>

\* current.format('dddd').toLowerCase()
DayOfWeek(day) == DayNames[(day % 7) + 1]

StartDays == {0, 6}
Durations == {15 * k : k \in 1..MaxDurSteps}
HourDays == {"monday", "tuesday"}
HourWindows == {<<540, 600>>, <<1365, 1425>>}
HourEntries == {[day |-> dn, start |-> w[1], end |-> w[2]] : dn \in HourDays, w \in HourWindows}
HourLists == UNION {[1..n -> HourEntries] : n \in 0..MaxHours}

BusyDays == {0, 7}
BusyStarts == {540, 570, 585, 1425}
BusyLens == {15, 30}
BusyCandidates ==
    {[start |-> bd * MinutesPerDay + s, end |-> bd * MinutesPerDay + s + l] :
        bd \in BusyDays, s \in BusyStarts, l \in BusyLens}

\* a query that reports no busy interval, whatever the calendar holds
FreeBusyNothing(primary, timeMin, timeMax) == {}

\* freebusy.query: the busy intervals of the calendar that meet [timeMin, timeMax]
FreeBusy(primary, timeMin, timeMax) ==
    {b \in primary : b.start < timeMax /\ b.end > timeMin}


(***************************************************************************)
(* The store and the calendar seen by the booking route. One authenticated *)
(* user owns business "B1"; lead "L1" belongs to it, lead "L2" to another  *)
(* business.                                                               *)
(***************************************************************************)
Null == "null"
Statuses == {"new", "qualified", "unqualified", "converted", "inactive"}
StatusInputs == {"new", "converted"}
Leads == {"L1", "L2"}
UserBusiness == "B1"
LeadBusiness(leadId) == IF leadId = "L1" THEN "B1" ELSE "B2"

Procs == 1..MaxBookings
BookingWindows == {<<540, 570>>}
ExternalBusy == {[start |-> 555, end |-> 585], [start |-> 570, end |-> 600]}

NoRequest ==
    [pc |-> "idle", leadId |-> Null, startTime |-> 0, endTime |-> 0,
     leadStatusRead |-> Null, calendarCredentials |-> "unread", busySlots |-> {},
     googleEventId |-> Null, calls |-> <<>>, overwrote |-> Null, status |-> 0]

BookIdle ==
    /\ leadStatus = [l \in Leads |-> "new"]
    /\ credentials = Null
    /\ calendar = {}
    /\ events = {}
    /\ meetings = {}
    /\ book = [p \in Procs |-> NoRequest]
    /\ puts = 0

InProcs == 1..MaxInbound

NoDelivery ==
    [pc |-> "idle", req |-> Null, phone |-> Null, message |-> Null, channel |-> Null,
     lead |-> Null, conversation |-> Null, conversationHistory |-> <<>>,
     aiResponse |-> Null, qualificationData |-> {}, storedData |-> {},
     extraction |-> "none", result |-> Null, ack |-> 0]

InbIdle ==
    /\ conversations = <<>>
    /\ messages = <<>>
    /\ qualification = [l \in Leads |-> {}]
    /\ generated = <<>>
    /\ sent = <<>>
    /\ inb = [p \in InProcs |-> NoDelivery]
    /\ started = <<>>

SlotIdle ==
    /\ slotReq = [startDay |-> 0, numDays |-> 1, duration |-> 30, hours |-> <<>>,
                  calendar |-> {}]
    /\ slotPc = "idle"
    /\ slotOut = <<>>

(***************************************************************************)
(* suggestTimeSlots                                                        *)
(***************************************************************************)

\* businessHours.find(h => h.day === dayOfWeek): the first entry of the day, or none
RECURSIVE FindDayHours(_, _, _)
FindDayHours(hours, dayName, i) ==
    IF i > Len(hours) THEN <<>>
    ELSE IF hours[i].day = dayName THEN <<hours[i]>>
    ELSE FindDayHours(hours, dayName, i + 1)

\* the overlap test without its second disjunct (the slot's end inside the busy interval)
ConflictsNoEndTest(slotStart, slotEnd, busy) ==
    \/ (slotStart >= busy.start /\ slotStart < busy.end)
    \/ (slotStart <= busy.start /\ slotEnd >= busy.end)

\* the three-way overlap test of a slot against one busy interval
Conflicts(slotStart, slotEnd, busy) ==
    \/ (slotStart >= busy.start /\ slotStart < busy.end)
    \/ (slotEnd > busy.start /\ slotEnd <= busy.end)
    \/ (slotStart <= busy.start /\ slotEnd >= busy.end)

IsAvailable(slotStart, slotEnd, busySlots) ==
    ~ \E busy \in busySlots : Conflicts(slotStart, slotEnd, busy)

\* The inner loop. slotStart.add(durationMinutes, 'minutes') advances slotStart
\* in place before the comparison with dayEnd, and the body uses the advanced value.
RECURSIVE DaySlots(_, _, _, _, _)
DaySlots(slotStart, dayEnd, duration, busySlots, acc) ==
    LET advanced == slotStart + duration
        slotEnd == advanced + duration
    IN  IF advanced <= dayEnd
        THEN DaySlots(advanced, dayEnd, duration, busySlots,
                      IF IsAvailable(advanced, slotEnd, busySlots)
                      THEN Append(acc, [start |-> advanced, end |-> slotEnd])
                      ELSE acc)
        ELSE acc

\* The outer loop over the calendar days current .. end.
RECURSIVE RangeSlots(_, _, _, _, _, _)
RangeSlots(current, endDay, duration, hours, busySlots, acc) ==
    IF current > endDay THEN acc
    ELSE LET dayHours == FindDayHours(hours, DayOfWeek(current), 1)
             dayStart == current * MinutesPerDay + dayHours[1].start
             dayEnd == current * MinutesPerDay + dayHours[1].end
         IN  RangeSlots(current + 1, endDay, duration, hours, busySlots,
                        IF dayHours # <<>>
                        THEN DaySlots(dayStart, dayEnd, duration, busySlots, acc)
                        ELSE acc)

ReqEndDay(r) == r.startDay + r.numDays - 1

\* what the calendar reports for the requested range
ReportedBusy(r) ==
    FreeBusy(r.calendar, r.startDay * MinutesPerDay, (ReqEndDay(r) + 1) * MinutesPerDay)

SlotRequests ==
    [startDay : StartDays, numDays : 1..MaxDays, duration : Durations,
     hours : HourLists,
     calendar : {c \in SUBSET BusyCandidates : Cardinality(c) <= MaxBusy}]

InitSlots ==
    /\ slotReq \in SlotRequests
    /\ slotPc = "call"
    /\ slotOut = <<>>
    /\ BookIdle
    /\ InbIdle

\* suggestTimeSlots, the calendar answering
SuggestTimeSlots ==
    /\ slotPc = "call"
    /\ slotOut' = RangeSlots(slotReq.startDay, ReqEndDay(slotReq), slotReq.duration,
                             slotReq.hours, ReportedBusy(slotReq), <<>>)
    /\ slotPc' = "done"
    /\ UNCHANGED <<slotReq, bookVars, inbVars>>

\* suggestTimeSlots, the freebusy query throwing: 'Failed to suggest available time slots'
SuggestTimeSlotsFails ==
    /\ slotPc = "call"
    /\ slotPc' = "error"
    /\ UNCHANGED <<slotReq, slotOut, bookVars, inbVars>>

NextSlots == SuggestTimeSlots \/ SuggestTimeSlotsFails

SpecSlots == InitSlots /\ [][NextSlots]_vars

(***************************************************************************)
(* Properties of suggestTimeSlots                                          *)
(***************************************************************************)
SlotSet == {slotOut[i] : i \in 1..Len(slotOut)}

\* [start, end) of a slot meets [start, end) of a busy interval
Intersects(slot, busy) == slot.start < busy.end /\ busy.start < slot.end

\* the slots the specification describes for one day: open + k*d while the end fits
WindowSlots(day, entry, duration) ==
    LET open == day * MinutesPerDay + entry.start
        close == day * MinutesPerDay + entry.end
        n == IF close >= open THEN (close - open) \div duration ELSE 0
    IN  [k \in 1..n |-> [start |-> open + (k - 1) * duration, end |-> open + k * duration]]

RECURSIVE SpecifiedSlots(_, _, _, _)
SpecifiedSlots(current, endDay, duration, hours) ==
    IF current > endDay THEN <<>>
    ELSE LET dayHours == FindDayHours(hours, DayOfWeek(current), 1)
         IN  (IF dayHours # <<>> THEN WindowSlots(current, dayHours[1], duration) ELSE <<>>)
             \o SpecifiedSlots(current + 1, endDay, duration, hours)

SpecifiedFor(r) == SpecifiedSlots(r.startDay, ReqEndDay(r), r.duration, r.hours)

FreeOf(busySlots, slot) == \A b \in busySlots : ~Intersects(slot, b)

\* C1: every returned slot lasts exactly durationMinutes, and no returned slot's
\* [start, end) meets a busy interval the calendar reported.
C1_DurationAndNoOverlap ==
    slotPc = "done" =>
        \A s \in SlotSet :
            /\ s.end - s.start = slotReq.duration
            /\ \A b \in ReportedBusy(slotReq) : ~Intersects(s, b)

\* C1 witness: a call that returned slots and dropped a candidate for a busy interval
C1_Witness ==
    /\ slotPc = "done"
    /\ slotOut # <<>>
    /\ ReportedBusy(slotReq) # {}
    /\ Len(slotOut) < Len(RangeSlots(slotReq.startDay, ReqEndDay(slotReq), slotReq.duration,
                                     slotReq.hours, {}, <<>>))

\* C2: every returned slot lies inside the business-hours window of its day:
\* it starts at or after the open time and ends at or before the close time.
C2_SlotsInsideWindow ==
    slotPc = "done" =>
        \A s \in SlotSet :
            LET day == s.start \div MinutesPerDay
                dayHours == FindDayHours(slotReq.hours, DayOfWeek(day), 1)
            IN  dayHours # <<>> =>
                    /\ s.start >= day * MinutesPerDay + dayHours[1].start
                    /\ s.end <= day * MinutesPerDay + dayHours[1].end

\* C3: with no busy interval the result is exactly the slots open + k*d, k >= 0,
\* with open + (k+1)*d <= close, day by day in order.
C3_ExactSlotsWhenFree ==
    (slotPc = "done" /\ ReportedBusy(slotReq) = {}) => slotOut = SpecifiedFor(slotReq)

\* C4: the result is the specified candidate sequence without exactly the candidates
\* whose [start, end) meets a busy interval; a candidate touching one at an endpoint stays.
C4_ExactFiltering ==
    slotPc = "done" =>
        slotOut = SelectSeq(SpecifiedFor(slotReq), LAMBDA s : FreeOf(ReportedBusy(slotReq), s))

\* C5: for a day of the range whose weekday has no business-hours entry, no returned
\* slot starts or ends within that day.
C5_NoSlotsOnDaysOff ==
    slotPc = "done" =>
        \A day \in slotReq.startDay..ReqEndDay(slotReq) :
            FindDayHours(slotReq.hours, DayOfWeek(day), 1) = <<>> =>
                \A s \in SlotSet :
                    /\ ~(day * MinutesPerDay <= s.start /\ s.start < (day + 1) * MinutesPerDay)
                    /\ ~(day * MinutesPerDay < s.end /\ s.end <= (day + 1) * MinutesPerDay)

(***************************************************************************)
(* POST /api/scheduling/meetings, one action per await of the handler      *)
(***************************************************************************)
Finish(p, code) == [book EXCEPT ![p].pc = "done", ![p].status = code]

\* the calendar path taken without testing calendarCredentials
AlwaysCalendarPath(calendarCredentials) == "check"

\* if (calendarCredentials): the calendar path, else straight to the insert
AfterCredentials(calendarCredentials) ==
    IF calendarCredentials # Null THEN "check" ELSE "persist"

\* the availability result not looked at
AvailabilityIgnored(busySlots) == TRUE

\* checkAvailability's result: busySlots.length === 0
IsAvailableNow(busySlots) == busySlots = {}

\* the row inserted without the event identifier
EventIdDropped(googleEventId) == Null

\* google_event_id of the row the handler inserts
StoredEventId(googleEventId) == googleEventId

InitBooking ==
    /\ SlotIdle
    /\ InbIdle
    /\ leadStatus \in {f \in [Leads -> StatusInputs] : f["L2"] = "new"}
    /\ credentials \in {Null, "refresh_token"}
    /\ calendar = {}
    /\ events = {}
    /\ meetings = {}
    /\ book = [p \in Procs |-> NoRequest]
    /\ puts = 0

\* the request is validated, the business and the lead are read; startTime and
\* endTime are validated as ISO 8601 dates, each on its own
PostMeetingsWith(p, windows) ==
    /\ book[p].pc = "idle"
    /\ \E leadId \in Leads, w \in windows :
        book' = [book EXCEPT ![p] =
                    IF LeadBusiness(leadId) = UserBusiness
                    THEN [NoRequest EXCEPT
                            !.leadId = leadId, !.startTime = w[1], !.endTime = w[2],
                            !.leadStatusRead = leadStatus[leadId], !.pc = "credentials"]
                    ELSE [NoRequest EXCEPT !.leadId = leadId, !.pc = "done", !.status = 404]]
    /\ UNCHANGED <<slotVars, inbVars, leadStatus, credentials, calendar, events, meetings, puts>>

PostMeetings(p) == PostMeetingsWith(p, BookingWindows)

GetCalendarCredentials(p) ==
    /\ book[p].pc = "credentials"
    /\ book' = [book EXCEPT ![p].calendarCredentials = credentials,
                            ![p].pc = AfterCredentials(credentials)]
    /\ UNCHANGED <<slotVars, inbVars, leadStatus, credentials, calendar, events, meetings, puts>>

\* checkAvailability answers; a busy interval in the window ends the request with 409
CheckAvailability(p) ==
    /\ book[p].pc = "check"
    /\ LET busySlots == FreeBusy(calendar, book[p].startTime, book[p].endTime)
       IN  book' = [book EXCEPT
                       ![p].busySlots = busySlots,
                       ![p].calls = Append(@, "freebusy"),
                       ![p].pc = IF IsAvailableNow(busySlots) THEN "create" ELSE "done",
                       ![p].status = IF IsAvailableNow(busySlots) THEN 0 ELSE 409]
    /\ UNCHANGED <<slotVars, inbVars, leadStatus, credentials, calendar, events, meetings, puts>>

\* checkAvailability throws 'Failed to check calendar availability'
CheckAvailabilityFails(p) ==
    /\ book[p].pc = "check"
    /\ book' = [Finish(p, 500) EXCEPT ![p].calls = Append(@, "freebusy")]
    /\ UNCHANGED <<slotVars, inbVars, leadStatus, credentials, calendar, events, meetings, puts>>

\* calendarService.createMeeting inserts the event and returns it
CreateCalendarEvent(p) ==
    /\ book[p].pc = "create"
    /\ LET id == "evt" \o ToString(Cardinality(events) + 1)
       IN  /\ events' = events \cup {[id |-> id, start |-> book[p].startTime,
                                      end |-> book[p].endTime, by |-> p]}
           /\ book' = [book EXCEPT ![p].googleEventId = id,
                                   ![p].calls = Append(@, "insert"),
                                   ![p].pc = "persist"]
    /\ calendar' = calendar \cup {[start |-> book[p].startTime, end |-> book[p].endTime]}
    /\ UNCHANGED <<slotVars, inbVars, leadStatus, credentials, meetings, puts>>

\* calendarService.createMeeting throws 'Failed to create calendar event'
CreateCalendarEventFails(p) ==
    /\ book[p].pc = "create"
    /\ book' = [Finish(p, 500) EXCEPT ![p].calls = Append(@, "insert")]
    /\ UNCHANGED <<slotVars, inbVars, leadStatus, credentials, calendar, events, meetings, puts>>

\* schedulingModel.createMeeting inserts the row; the status test uses the lead read earlier
CreateMeeting(p) ==
    /\ book[p].pc = "persist"
    /\ meetings' = meetings \cup
            {[id |-> Cardinality(meetings) + 1, lead_id |-> book[p].leadId,
              start_time |-> book[p].startTime, end_time |-> book[p].endTime,
              status |-> "scheduled",
              google_event_id |-> StoredEventId(book[p].googleEventId),
              withCredentials |-> book[p].calendarCredentials, by |-> p]}
    /\ book' = IF book[p].leadStatusRead = "new"
               THEN [book EXCEPT ![p].pc = "status"]
               ELSE Finish(p, 201)
    /\ UNCHANGED <<slotVars, inbVars, leadStatus, credentials, calendar, events, puts>>

CreateMeetingFails(p) ==
    /\ book[p].pc = "persist"
    /\ book' = Finish(p, 500)
    /\ UNCHANGED <<slotVars, inbVars, leadStatus, credentials, calendar, events, meetings, puts>>

\* leadModel.updateLeadStatus(leadId, 'qualified')
UpdateLeadStatus(p) ==
    /\ book[p].pc = "status"
    /\ leadStatus' = [leadStatus EXCEPT ![book[p].leadId] = "qualified"]
    /\ book' = [Finish(p, 201) EXCEPT ![p].overwrote = leadStatus[book[p].leadId]]
    /\ UNCHANGED <<slotVars, inbVars, credentials, calendar, events, meetings, puts>>

UpdateLeadStatusFails(p) ==
    /\ book[p].pc = "status"
    /\ book' = Finish(p, 500)
    /\ UNCHANGED <<slotVars, inbVars, leadStatus, credentials, calendar, events, meetings, puts>>

\* PUT /api/leads/:id with a status in the body; 404 for a lead of another business
PutLead(leadId, status) ==
    /\ puts < MaxPuts
    /\ puts' = puts + 1
    /\ leadStatus' = IF LeadBusiness(leadId) = UserBusiness
                     THEN [leadStatus EXCEPT ![leadId] = status]
                     ELSE leadStatus
    /\ UNCHANGED <<slotVars, inbVars, credentials, calendar, events, meetings, book>>

\* POST /api/onboarding/calendar
StoreCalendarCredentials ==
    /\ credentials = Null
    /\ credentials' = "refresh_token"
    /\ UNCHANGED <<slotVars, inbVars, leadStatus, calendar, events, meetings, book, puts>>

\* the calendar owner adds an appointment outside the program
CalendarOwnerBooks(b) ==
    /\ b \notin calendar
    /\ calendar' = calendar \cup {b}
    /\ UNCHANGED <<slotVars, inbVars, leadStatus, credentials, events, meetings, book, puts>>

NextBooking ==
    \/ \E p \in Procs :
        \/ PostMeetings(p)
        \/ GetCalendarCredentials(p)
        \/ CheckAvailability(p)
        \/ CheckAvailabilityFails(p)
        \/ CreateCalendarEvent(p)
        \/ CreateCalendarEventFails(p)
        \/ CreateMeeting(p)
        \/ CreateMeetingFails(p)
        \/ UpdateLeadStatus(p)
        \/ UpdateLeadStatusFails(p)
    \/ \E leadId \in Leads, status \in StatusInputs : PutLead(leadId, status)
    \/ StoreCalendarCredentials
    \/ \E b \in ExternalBusy : CalendarOwnerBooks(b)

SpecBooking == InitBooking /\ [][NextBooking]_vars

(***************************************************************************)
(* POST /api/scheduling/meetings with any two dates, and                   *)
(* PUT /api/scheduling/meetings/:id                                        *)
(***************************************************************************)
\* startTime and endTime of a POST body: a window, and two dates in the other order
MeetingWindows == BookingWindows \cup {<<570, 540>>}

\* the updates object built from a PUT body that has startTime only, or endTime only
MeetingUpdates == {{<<"start_time", 600>>}, {<<"end_time", 530>>}}

PostMeetingsAnyDates(p) == PostMeetingsWith(p, MeetingWindows)

\* the row with the fields of updates written over it
Updated(row, updates) ==
    [row EXCEPT
        !.start_time = IF \E u \in updates : u[1] = "start_time"
                       THEN (CHOOSE u \in updates : u[1] = "start_time")[2] ELSE @,
        !.end_time = IF \E u \in updates : u[1] = "end_time"
                     THEN (CHOOSE u \in updates : u[1] = "end_time")[2] ELSE @]

\* PUT /meetings/:id: 404 when the meeting does not exist, else updateMeeting
PutMeeting(meetingId, updates) ==
    /\ puts < MaxPuts
    /\ puts' = puts + 1
    /\ meetings' = {IF m.id = meetingId THEN Updated(m, updates) ELSE m : m \in meetings}
    /\ UNCHANGED <<slotVars, inbVars, leadStatus, credentials, calendar, events, book>>

NextMeetings ==
    \/ \E p \in Procs :
        \/ PostMeetingsAnyDates(p)
        \/ GetCalendarCredentials(p)
        \/ CheckAvailability(p)
        \/ CheckAvailabilityFails(p)
        \/ CreateCalendarEvent(p)
        \/ CreateCalendarEventFails(p)
        \/ CreateMeeting(p)
        \/ CreateMeetingFails(p)
        \/ UpdateLeadStatus(p)
        \/ UpdateLeadStatusFails(p)
    \/ \E meetingId \in Procs, updates \in MeetingUpdates : PutMeeting(meetingId, updates)

SpecMeetings == InitBooking /\ [][NextMeetings]_vars

(***************************************************************************)
(* The inbound pipeline: POST /api/webhooks/twilio/incoming and            *)
(* processIncomingMessage, one action per await. Lead "L1" (business "B1", *)
(* which has an assistant configuration) has phone "+111"; lead "L2"       *)
(* (business "B2", no assistant configuration) has phone "+222".           *)
(***************************************************************************)
HistoryLimit == 20
MessagesLimit == 100

LeadPhone(leadId) == IF leadId = "L1" THEN "+111" ELSE "+222"
HasAssistantConfig(businessId) == businessId = "B1"

\* leads.business_id references businesses(id) with ON DELETE CASCADE: the business
\* of a lead that was resolved exists
HasBusiness(businessId) == businessId \in {"B1", "B2"}

\* req.body.From: absent, or a number with or without the "whatsapp:" prefix
Froms ==
    {[present |-> FALSE, whatsapp |-> FALSE, number |-> Null]}
    \cup {[present |-> TRUE, whatsapp |-> w, number |-> n] :
            w \in BOOLEAN, n \in {"+111", "+222", "+999"}}
Bodies == {"hi", "My budget is $5,000"}

\* assistantConfig.required_info.split(',').map(field => field.trim().toLowerCase())
RequiredFields == <<"budget", "timeline">>

\* the leads table read without the phone filter
AllLeadRows(phone) == <<"L1", "L2">>

\* leadModel.getLeadsByPhone: the rows whose phone equals the argument
LeadsByPhone(phone) == SelectSeq(<<"L1", "L2">>, LAMBDA l : LeadPhone(l) = phone)

\* the rows of a conversation, in creation order
MessagesOf(conversationId) ==
    SelectSeq(messages, LAMBDA m : m.conversation_id = conversationId)

\* the first n rows instead of the last n
OldestN(seq, n) == IF Len(seq) <= n THEN seq ELSE SubSeq(seq, 1, n)

\* order('created_at', descending).limit(n), then reverse(): the last n rows in
\* creation order
LastN(seq, n) == IF Len(seq) <= n THEN seq ELSE SubSeq(seq, Len(seq) - n + 1, Len(seq))
FirstN(seq, n) == IF Len(seq) <= n THEN seq ELSE SubSeq(seq, 1, n)

\* the most recently created conversation of the lead, whatever its status
LatestConversation(leadId) ==
    LET own == SelectSeq(conversations, LAMBDA c : c.lead_id = leadId)
    IN  IF own = <<>> THEN Null ELSE own[Len(own)].id

\* getActiveConversationByLeadId: the most recently created active conversation
ActiveConversation(leadId) ==
    LET act == SelectSeq(conversations,
                         LAMBDA c : c.lead_id = leadId /\ c.status = "active")
    IN  IF act = <<>> THEN Null ELSE act[Len(act)].id

\* generateConversation reads msg.isFromLead; the stored rows carry is_from_lead
RoleOf(msg) ==
    IF "isFromLead" \in DOMAIN msg /\ msg["isFromLead"] = TRUE THEN "user" ELSE "assistant"

InstructionSequence(conversationHistory, userMessage) ==
    <<[role |-> "system", content |-> "systemPrompt"]>>
    \o [i \in 1..Len(conversationHistory) |->
            [role |-> RoleOf(conversationHistory[i]),
             content |-> conversationHistory[i].content]]
    \o <<[role |-> "user", content |-> userMessage]>>

\* String.prototype.toLowerCase, on the strings of the model
ToLowerCase(content) ==
    CASE content = "My budget is $5,000" -> "my budget is $5,000"
      [] content = "SMS" -> "sms"
      [] OTHER -> content

\* leads.contact_channel of the two leads that exist at the start
LeadChannel(leadId) == IF leadId = "L1" THEN "whatsapp" ELSE "sms"

UnsupportedChannel == "Unsupported channel"

\* the switch of sendMessage with the channel compared as it is given
GatewayExact(channel) ==
    CASE channel = "whatsapp" -> "whatsapp"
      [] channel = "sms" -> "sms"
      [] OTHER -> UnsupportedChannel

\* the switch of sendMessage on channel.toLowerCase(): the sender it calls, or the
\* error of the default branch
Gateway(channel) ==
    CASE ToLowerCase(channel) = "whatsapp" -> "whatsapp"
      [] ToLowerCase(channel) = "sms" -> "sms"
      [] OTHER -> UnsupportedChannel

Includes(content, word) ==
    CASE word = "budget" -> content \in {"my budget is $5,000"}
      [] OTHER -> FALSE

\* content.match(/budget\s*(?:is|of|:)?\s*[\$£€]?\s*(\d+[,\d]*)/i)[1], or no match
BudgetMatch(content) ==
    CASE content = "my budget is $5,000" -> <<"5,000">>
      [] OTHER -> <<>>

\* budgetMatch[1].replace(/,/g, '')
StripCommas(text) ==
    CASE text = "5,000" -> "5000"
      [] OTHER -> text

\* qualification maps are sets of <<field, value>>; a later value replaces an earlier one
Put(map, field, value) == {kv \in map : kv[1] # field} \cup {<<field, value>>}
Keys(map) == {kv[1] : kv \in map}

\* a merge that drops the fields both maps have
MergeToggle(old, new) ==
    {kv \in old : kv[1] \notin Keys(new)} \cup {kv \in new : kv[1] \notin Keys(old)}

\* a merge that keeps only the new map
MergeReplace(old, new) == new

\* { ...(lead.additional_info?.qualification_data || {}), ...qualificationData }
Merge(old, new) == {kv \in old : \A n \in new : n[1] # kv[1]} \cup new

\* the body of the two loops of extractQualificationData for one field and one message
ExtractOne(data, field, message) ==
    IF ~message.is_from_lead THEN data
    ELSE LET content == ToLowerCase(message.content)
             withBudget ==
                IF field = "budget" /\ Includes(content, "budget") /\ BudgetMatch(content) # <<>>
                THEN Put(data, "budget", StripCommas(BudgetMatch(content)[1]))
                ELSE data
         IN  IF field = "timeline"
                /\ (Includes(content, "timeline") \/ Includes(content, "time frame"))
             THEN (IF Includes(content, "month") THEN Put(withBudget, "timeline", "months")
                   ELSE IF Includes(content, "week") THEN Put(withBudget, "timeline", "weeks")
                   ELSE IF Includes(content, "day") THEN Put(withBudget, "timeline", "days")
                   ELSE withBudget)
             ELSE withBudget

\* for (const message of messages): the loop body applied to msgs[lo], ..., msgs[hi]
\* in this order. The range is folded as its first half and then its second half, and
\* the map after the first half is computed (its cardinality is taken) before the
\* second half starts.
RECURSIVE ExtractRange(_, _, _, _, _)
ExtractRange(data, field, msgs, lo, hi) ==
    IF lo > hi THEN data
    ELSE IF lo = hi THEN ExtractOne(data, field, msgs[lo])
    ELSE LET mid == (lo + hi) \div 2
             updated == ExtractRange(data, field, msgs, lo, mid)
         IN  IF Cardinality(updated) >= 0
             THEN ExtractRange(updated, field, msgs, mid + 1, hi)
             ELSE updated

ExtractMessages(data, field, msgs, i) == ExtractRange(data, field, msgs, i, Len(msgs))

RECURSIVE ExtractFields(_, _, _, _)
ExtractFields(data, fields, msgs, f) ==
    IF f > Len(fields) THEN data
    ELSE ExtractFields(ExtractMessages(data, fields[f], msgs, 1), fields, msgs, f + 1)

\* processIncomingMessage returns or throws: the locals that are not part of the
\* outcome go out of scope
Return(p, outcome) ==
    [inb EXCEPT ![p].pc = "done", ![p].result = outcome, ![p].conversationHistory = <<>>,
                ![p].qualificationData = {}, ![p].storedData = {}]

\* the catch of processIncomingMessage: the error is rethrown to the caller
Fail(p, error) == Return(p, error)

\* a conversation of lead "L1" that exists before the first delivery, with n messages
\* that alternate between the lead and the assistant
SeedConversations(n) ==
    IF n = 0 THEN <<>>
    ELSE <<[id |-> "c1", lead_id |-> "L1", business_id |-> "B1", status |-> "active",
            by |-> 0]>>

SeedMessages(n) ==
    [i \in 1..n |-> [conversation_id |-> "c1", content |-> "m" \o ToString(i),
                     is_from_lead |-> (i % 2 = 1), created_at |-> i, by |-> 0]]

SeedSizes == {0, MaxSeed}

InitInbound ==
    /\ SlotIdle
    /\ BookIdle
    /\ \E n \in SeedSizes :
        /\ conversations = SeedConversations(n)
        /\ messages = SeedMessages(n)
    /\ qualification = [l \in Leads |-> {}]
    /\ generated = <<>>
    /\ sent = <<>>
    /\ inb = [p \in InProcs |-> NoDelivery]
    /\ started = <<>>

\* Twilio posts a message to the webhook
Deliver(p, from, body) ==
    /\ inb[p].pc = "idle"
    /\ inb' = [inb EXCEPT ![p].req = [From |-> from, Body |-> body], ![p].pc = "received"]
    /\ UNCHANGED <<slotVars, bookVars, started, conversations, messages, qualification,
                   generated, sent>>

Receive(p) == \E from \in Froms, body \in Bodies : Deliver(p, from, body)

\* the handler's response, res.send('<Response></Response>'), on both of its paths
Acknowledge(ack) == ack + 1

\* the handler with a catch that does not respond
TwilioIncomingErrorUnanswered(p) ==
    /\ inb[p].pc = "received"
    /\ LET from == inb[p].req.From
           body == inb[p].req.Body
       IN  inb' = [inb EXCEPT ![p] =
                    IF from.present
                    THEN [NoDelivery EXCEPT
                            !.phone = from.number, !.message = body,
                            !.channel = IF from.whatsapp THEN "whatsapp" ELSE "sms",
                            !.pc = "leads", !.ack = Acknowledge(inb[p].ack)]
                    ELSE [NoDelivery EXCEPT !.pc = "done", !.result = "not started"]]
    /\ UNCHANGED <<slotVars, bookVars, started, conversations, messages, qualification,
                   generated, sent>>

\* The webhook handler: it starts the pipeline without awaiting it and acknowledges.
\* An absent From throws in from.replace; the catch acknowledges as well.
TwilioIncoming(p) ==
    /\ inb[p].pc = "received"
    /\ LET from == inb[p].req.From
           body == inb[p].req.Body
       IN  inb' = [inb EXCEPT ![p] =
                    IF from.present
                    THEN [NoDelivery EXCEPT
                            !.phone = from.number, !.message = body,
                            !.channel = IF from.whatsapp THEN "whatsapp" ELSE "sms",
                            !.pc = "leads", !.ack = Acknowledge(inb[p].ack)]
                    ELSE [NoDelivery EXCEPT !.pc = "done", !.ack = Acknowledge(inb[p].ack),
                                            !.result = "not started"]]
    /\ UNCHANGED <<slotVars, bookVars, started, conversations, messages, qualification, generated, sent>>

GetLeadsByPhone(p) ==
    /\ inb[p].pc = "leads"
    /\ LET leads == LeadsByPhone(inb[p].phone)
       IN  inb' = IF leads = <<>>
                  THEN Fail(p, "Lead not found for this phone number")
                  ELSE [inb EXCEPT ![p].lead = leads[1], ![p].pc = "conversation"]
    /\ UNCHANGED <<slotVars, bookVars, started, conversations, messages, qualification, generated, sent>>

GetActiveConversation(p) ==
    /\ inb[p].pc = "conversation"
    /\ LET conversation == ActiveConversation(inb[p].lead)
       IN  inb' = [inb EXCEPT ![p].conversation = conversation,
                              ![p].pc = IF conversation = Null THEN "start" ELSE "inbound"]
    /\ UNCHANGED <<slotVars, bookVars, started, conversations, messages, qualification, generated, sent>>

\* conversationModel.startConversation(lead.id, lead.business_id)
StartConversation(p) ==
    /\ inb[p].pc = "start"
    /\ LET id == "c" \o ToString(Len(conversations) + 1)
       IN  /\ conversations' = Append(conversations,
                    [id |-> id, lead_id |-> inb[p].lead,
                     business_id |-> LeadBusiness(inb[p].lead), status |-> "active",
                     by |-> p])
           /\ inb' = [inb EXCEPT ![p].conversation = id, ![p].pc = "inbound"]
    /\ UNCHANGED <<slotVars, bookVars, started, messages, qualification, generated, sent>>

\* the pipeline going on without the insert of the inbound message
AddInboundMessageSkipped(p) ==
    /\ inb[p].pc = "inbound"
    /\ inb' = [inb EXCEPT ![p].pc = "config"]
    /\ UNCHANGED <<slotVars, bookVars, started, conversations, messages, qualification,
                   generated, sent>>

\* conversationModel.addMessage(conversation.id, message, true)
AddInboundMessage(p) ==
    /\ inb[p].pc = "inbound"
    /\ messages' = Append(messages,
            [conversation_id |-> inb[p].conversation, content |-> inb[p].message,
             is_from_lead |-> TRUE, created_at |-> Len(messages) + 1, by |-> p])
    /\ inb' = [inb EXCEPT ![p].pc = "config"]
    /\ UNCHANGED <<slotVars, bookVars, started, conversations, qualification, generated, sent>>

ConfigurationMissing == "Business or assistant configuration not found"

\* the pipeline going on without the test of business and assistantConfig
LoadConfigurationUnchecked(p) ==
    /\ inb[p].pc = "config"
    /\ inb' = [inb EXCEPT ![p].pc = "history"]
    /\ UNCHANGED <<slotVars, bookVars, started, conversations, messages, qualification,
                   generated, sent>>

\* getBusinessById (which throws when there is no row) and getAssistantConfig (which
\* returns null when there is no row), then if (!business || !assistantConfig)
LoadConfiguration(p) ==
    /\ inb[p].pc = "config"
    /\ inb' = IF ~HasBusiness(LeadBusiness(inb[p].lead))
              THEN Fail(p, "Failed to fetch business")
              ELSE IF HasAssistantConfig(LeadBusiness(inb[p].lead))
              THEN [inb EXCEPT ![p].pc = "history"]
              ELSE Fail(p, ConfigurationMissing)
    /\ UNCHANGED <<slotVars, bookVars, started, conversations, messages, qualification, generated, sent>>

\* conversationModel.getRecentMessages(conversation.id, 20)
GetRecentMessages(p) ==
    /\ inb[p].pc = "history"
    /\ inb' = [inb EXCEPT
                  ![p].conversationHistory = LastN(MessagesOf(inb[p].conversation), HistoryLimit),
                  ![p].pc = "generate"]
    /\ UNCHANGED <<slotVars, bookVars, started, conversations, messages, qualification, generated, sent>>

\* openaiService.generateConversation returns the completion
GenerateConversation(p) ==
    /\ inb[p].pc = "generate"
    /\ generated' = Append(generated,
            [by |-> p, conversationHistory |-> inb[p].conversationHistory,
             userMessage |-> inb[p].message,
             messages |-> InstructionSequence(inb[p].conversationHistory, inb[p].message)])
    /\ inb' = [inb EXCEPT ![p].aiResponse = "reply", ![p].pc = "outbound"]
    /\ UNCHANGED <<slotVars, bookVars, started, conversations, messages, qualification, sent>>

\* the completion call throws: 'Failed to generate response from AI'
GenerateConversationFails(p) ==
    /\ inb[p].pc = "generate"
    /\ generated' = Append(generated,
            [by |-> p, conversationHistory |-> inb[p].conversationHistory,
             userMessage |-> inb[p].message,
             messages |-> InstructionSequence(inb[p].conversationHistory, inb[p].message)])
    /\ inb' = Fail(p, "Failed to generate response from AI")
    /\ UNCHANGED <<slotVars, bookVars, started, conversations, messages, qualification, sent>>

\* the pipeline going on to the dispatch without the insert of the reply
AddOutboundMessageSkipped(p) ==
    /\ inb[p].pc = "outbound"
    /\ inb' = [inb EXCEPT ![p].pc = "send"]
    /\ UNCHANGED <<slotVars, bookVars, started, conversations, messages, qualification,
                   generated, sent>>

\* conversationModel.addMessage(conversation.id, aiResponse, false)
AddOutboundMessage(p) ==
    /\ inb[p].pc = "outbound"
    /\ messages' = Append(messages,
            [conversation_id |-> inb[p].conversation, content |-> inb[p].aiResponse,
             is_from_lead |-> FALSE, created_at |-> Len(messages) + 1, by |-> p])
    /\ inb' = [inb EXCEPT ![p].pc = "send"]
    /\ UNCHANGED <<slotVars, bookVars, started, conversations, qualification, generated, sent>>

\* twilioService.sendMessage(phone, aiResponse, channel)
SendMessage(p) ==
    /\ inb[p].pc = "send"
    /\ IF Gateway(inb[p].channel) # UnsupportedChannel
       THEN /\ sent' = Append(sent, [to |-> inb[p].phone, body |-> inb[p].aiResponse,
                                     channel |-> Gateway(inb[p].channel), by |-> p])
            /\ inb' = [inb EXCEPT ![p].pc = "extract"]
       ELSE /\ sent' = sent
            /\ inb' = Fail(p, UnsupportedChannel)
    /\ UNCHANGED <<slotVars, bookVars, started, conversations, messages, qualification, generated>>

\* the gateway rejects the message: 'Failed to send ...'
SendMessageFails(p) ==
    /\ inb[p].pc = "send"
    /\ inb' = Fail(p, "Failed to send message")
    /\ UNCHANGED <<slotVars, bookVars, started, conversations, messages, qualification, generated, sent>>

\* extractQualificationData up to the test of Object.keys(qualificationData).length
ExtractQualificationData(p) ==
    /\ inb[p].pc = "extract"
    /\ LET data == ExtractFields({}, RequiredFields,
                                 FirstN(MessagesOf(inb[p].conversation), MessagesLimit), 1)
       IN  inb' = IF data # {}
                  THEN [inb EXCEPT ![p].qualificationData = data, ![p].extraction = "ran",
                                   ![p].pc = "mergeRead"]
                  ELSE [Return(p, "ok") EXCEPT ![p].extraction = "ran"]
    /\ UNCHANGED <<slotVars, bookVars, started, conversations, messages, qualification, generated, sent>>

\* addLeadQualificationData: getLeadById
MergeRead(p) ==
    /\ inb[p].pc = "mergeRead"
    /\ inb' = [inb EXCEPT ![p].storedData = qualification[inb[p].lead], ![p].pc = "mergeWrite"]
    /\ UNCHANGED <<slotVars, bookVars, started, conversations, messages, qualification, generated, sent>>

\* addLeadQualificationData: the update with the merged map
MergeWrite(p) ==
    /\ inb[p].pc = "mergeWrite"
    /\ qualification' = [qualification EXCEPT
                            ![inb[p].lead] = Merge(inb[p].storedData, inb[p].qualificationData)]
    /\ inb' = Return(p, "ok")
    /\ UNCHANGED <<slotVars, bookVars, started, conversations, messages, generated, sent>>

\* a catch of extractQualificationData that rethrows
ExtractionRethrows(p) ==
    [Fail(p, "Failed to add lead qualification data") EXCEPT ![p].extraction = "failed"]

\* the catch of extractQualificationData: the error is logged and not rethrown, and
\* processIncomingMessage goes on to its return
ExtractionCatch(p) == [Return(p, "ok") EXCEPT ![p].extraction = "failed"]

\* a store error inside extractQualificationData
ExtractionFails(p) ==
    /\ inb[p].pc \in {"extract", "mergeRead", "mergeWrite"}
    /\ inb[p].conversation # Null
    /\ inb' = ExtractionCatch(p)
    /\ UNCHANGED <<slotVars, bookVars, started, conversations, messages, qualification, generated, sent>>

\* no pipeline is between its start and its end
Quiet == \A q \in InProcs : inb[q].pc \in {"idle", "done"}

\* deliveries that arrive one after the other: each pipeline ends before the next starts
NextInbound ==
    \E p \in InProcs :
        \/ (Quiet /\ Receive(p))
        \/ TwilioIncoming(p)
        \/ GetLeadsByPhone(p)
        \/ GetActiveConversation(p)
        \/ StartConversation(p)
        \/ AddInboundMessage(p)
        \/ LoadConfiguration(p)
        \/ GetRecentMessages(p)
        \/ GenerateConversation(p)
        \/ GenerateConversationFails(p)
        \/ AddOutboundMessage(p)
        \/ SendMessage(p)
        \/ SendMessageFails(p)
        \/ ExtractQualificationData(p)
        \/ MergeRead(p)
        \/ MergeWrite(p)
        \/ ExtractionFails(p)

SpecInbound == InitInbound /\ [][NextInbound]_vars

\* deliveries to a lead whose conversation has reached, or is two messages short of,
\* the number of rows that getMessagesByConversationId returns
LongSeedSizes == {MessagesLimit - 2, MessagesLimit}

InitLong ==
    /\ SlotIdle
    /\ BookIdle
    /\ \E n \in LongSeedSizes :
        /\ conversations = SeedConversations(n)
        /\ messages = SeedMessages(n)
    /\ qualification = [l \in Leads |-> {}]
    /\ generated = <<>>
    /\ sent = <<>>
    /\ inb = [p \in InProcs |-> NoDelivery]
    /\ started = <<>>

SpecLong == InitLong /\ [][NextInbound]_vars

(***************************************************************************)
(* The conversation routes next to concurrent inbound pipelines:           *)
(* POST /api/conversations/lead/:leadId/start, POST /api/leads (which      *)
(* calls startLeadConversation) and PUT /api/conversations/:id/close, each *)
(* one action, by the authenticated user of business "B1", around one      *)
(* inbound delivery.                                                       *)
(***************************************************************************)
MaxStarts == 2      \* conversation-start requests (both routes together)

\* req.body.phone and req.body.contact_channel of POST /api/leads; the route does
\* not validate the channel
NewLeads == {<<Null, "SMS">>, <<"+333", Null>>, <<"+333", "SMS">>, <<"+333", "email">>}

\* const { contact_channel = 'whatsapp' } = leadData
ContactChannel(input) == IF input = Null THEN "whatsapp" ELSE input

Greeting == "greeting"

\* the k-th start request signs the rows it writes with -k
StartId == 0 - (Len(started) + 1)

\* startConversation(leadId, businessId, greeting) followed by
\* if (lead.phone) sendMessage(lead.phone, greeting, lead.contact_channel):
\* the conversation row, the greeting row, the send, and the outcome of the request
StartAndGreet(route, leadId, phone, channel, okStatus) ==
    LET id == "c" \o ToString(Len(conversations) + 1)
        delivered == phone # Null /\ Gateway(channel) # UnsupportedChannel
        error == IF phone # Null /\ Gateway(channel) = UnsupportedChannel
                 THEN UnsupportedChannel ELSE Null
    IN  /\ conversations' = Append(conversations,
                [id |-> id, lead_id |-> leadId, business_id |-> UserBusiness,
                 status |-> "active", by |-> StartId])
        /\ messages' = Append(messages,
                [conversation_id |-> id, content |-> Greeting, is_from_lead |-> FALSE,
                 created_at |-> Len(messages) + 1, by |-> StartId])
        /\ sent' = IF delivered
                   THEN Append(sent, [to |-> phone, body |-> Greeting,
                                      channel |-> Gateway(channel), by |-> StartId])
                   ELSE sent
        /\ started' = Append(started,
                [route |-> route, leadId |-> leadId, phone |-> phone, channel |-> channel,
                 status |-> IF error = Null THEN okStatus ELSE 500, error |-> error])

\* POST /api/conversations/lead/:leadId/start
StartConversationRoute(leadId) ==
    /\ Len(started) < MaxStarts
    /\ IF LeadBusiness(leadId) # UserBusiness
       THEN /\ started' = Append(started,
                    [route |-> "start", leadId |-> leadId, phone |-> Null, channel |-> Null,
                     status |-> 404, error |-> "Lead not found"])
            /\ UNCHANGED <<conversations, messages, sent>>
       ELSE StartAndGreet("start", leadId, LeadPhone(leadId), LeadChannel(leadId), 200)
    /\ UNCHANGED <<slotVars, bookVars, qualification, generated, inb>>

\* POST /api/leads: createLead, then startLeadConversation for the new lead
CreateLeadRoute(phone, input) ==
    /\ Len(started) < MaxStarts
    /\ StartAndGreet("leads", "N" \o ToString(Len(started) + 1), phone,
                     ContactChannel(input), 201)
    /\ UNCHANGED <<slotVars, bookVars, qualification, generated, inb>>

\* PUT /api/conversations/:id/close: updateConversationStatus(conversationId, 'closed')
\* for a conversation of the user's business, 404 otherwise
CloseConversation(i) ==
    /\ i \in 1..Len(conversations)
    /\ conversations[i].business_id = UserBusiness
    /\ conversations' = [conversations EXCEPT ![i].status = "closed"]
    /\ UNCHANGED <<slotVars, bookVars, messages, qualification, generated, sent, inb, started>>

\* the payloads of the concurrent deliveries
RaceFroms ==
    {f \in Froms : ~f.present \/ (~f.whatsapp /\ f.number \in {"+111", "+999"})}
RaceBodies == Bodies

InitConversations ==
    /\ SlotIdle
    /\ BookIdle
    /\ InbIdle

\* the delivery that runs next to the routes
RouteProcs == {1}

NextConversations ==
    \/ \E p \in RouteProcs :
        \/ \E from \in RaceFroms, body \in RaceBodies : Deliver(p, from, body)
        \/ TwilioIncoming(p)
        \/ GetLeadsByPhone(p)
        \/ GetActiveConversation(p)
        \/ StartConversation(p)
        \/ AddInboundMessage(p)
        \/ LoadConfiguration(p)
        \/ GetRecentMessages(p)
        \/ GenerateConversation(p)
        \/ GenerateConversationFails(p)
        \/ AddOutboundMessage(p)
        \/ SendMessage(p)
        \/ SendMessageFails(p)
        \/ ExtractQualificationData(p)
        \/ MergeRead(p)
        \/ MergeWrite(p)
        \/ ExtractionFails(p)
    \/ \E leadId \in Leads : StartConversationRoute(leadId)
    \/ \E new \in NewLeads : CreateLeadRoute(new[1], new[2])
    \/ \E i \in 1..Len(conversations) : CloseConversation(i)

SpecConversations == InitConversations /\ [][NextConversations]_vars

(***************************************************************************)
(* POST /api/leads/:id/qualification next to the inbound pipeline. The     *)
(* route and the extraction both call addLeadQualificationData, which      *)
(* reads the lead and then writes the merged map.                          *)
(***************************************************************************)
\* req.body.qualificationData
QualificationInputs == {{<<"timeline", "weeks">>}}

\* the route up to its call of addLeadQualificationData
PostQualification(p, leadId, qualificationData) ==
    /\ inb[p].pc = "idle"
    /\ LET request == [id |-> leadId, qualificationData |-> qualificationData]
       IN  inb' = [inb EXCEPT ![p] =
                    IF LeadBusiness(leadId) # UserBusiness
                    THEN [NoDelivery EXCEPT !.req = request, !.pc = "done",
                                            !.result = "Lead not found"]
                    ELSE [NoDelivery EXCEPT !.req = request, !.lead = leadId,
                                            !.qualificationData = qualificationData,
                                            !.pc = "mergeRead"]]
    /\ UNCHANGED <<slotVars, bookVars, started, conversations, messages, qualification,
                   generated, sent>>

\* a store error inside addLeadQualificationData called by the route: next(error)
PostQualificationFails(p) ==
    /\ inb[p].pc \in {"mergeRead", "mergeWrite"}
    /\ inb[p].conversation = Null
    /\ inb' = Fail(p, "Failed to add lead qualification data")
    /\ UNCHANGED <<slotVars, bookVars, started, conversations, messages, qualification,
                   generated, sent>>

\* calls that run one after the other: a delivery or a route request starts when no
\* other is running
NextQualification ==
    \E p \in InProcs :
        \/ (Quiet /\ \E from \in RaceFroms, body \in RaceBodies : Deliver(p, from, body))
        \/ (Quiet /\ \E leadId \in Leads, data \in QualificationInputs :
                        PostQualification(p, leadId, data))
        \/ PostQualificationFails(p)
        \/ TwilioIncoming(p)
        \/ GetLeadsByPhone(p)
        \/ GetActiveConversation(p)
        \/ StartConversation(p)
        \/ AddInboundMessage(p)
        \/ LoadConfiguration(p)
        \/ GetRecentMessages(p)
        \/ GenerateConversation(p)
        \/ GenerateConversationFails(p)
        \/ AddOutboundMessage(p)
        \/ SendMessage(p)
        \/ SendMessageFails(p)
        \/ ExtractQualificationData(p)
        \/ MergeRead(p)
        \/ MergeWrite(p)
        \/ ExtractionFails(p)

SpecQualification == InitConversations /\ [][NextQualification]_vars

(***************************************************************************)
(* Concurrent deliveries: the pipelines of two requests, of which one may  *)
(* arrive while the other is still running, interleaved at their awaits.   *)
(***************************************************************************)
RaceProcs == {1, 2}

NextRace ==
    \E p \in RaceProcs :
        \/ \E from \in RaceFroms, body \in RaceBodies : Deliver(p, from, body)
        \/ TwilioIncoming(p)
        \/ GetLeadsByPhone(p)
        \/ GetActiveConversation(p)
        \/ StartConversation(p)
        \/ AddInboundMessage(p)
        \/ LoadConfiguration(p)
        \/ GetRecentMessages(p)
        \/ GenerateConversation(p)
        \/ GenerateConversationFails(p)
        \/ AddOutboundMessage(p)
        \/ SendMessage(p)
        \/ SendMessageFails(p)
        \/ ExtractQualificationData(p)
        \/ MergeRead(p)
        \/ MergeWrite(p)
        \/ ExtractionFails(p)

SpecRace == InitConversations /\ [][NextRace]_vars

\* the server runs the handler of every request it has received
\* a route request and deliveries that run at the same time
NextQualificationRace ==
    \E p \in RaceProcs :
        \/ \E from \in RaceFroms, body \in RaceBodies : Deliver(p, from, body)
        \/ \E leadId \in Leads, data \in QualificationInputs :
                PostQualification(p, leadId, data)
        \/ PostQualificationFails(p)
        \/ TwilioIncoming(p)
        \/ GetLeadsByPhone(p)
        \/ GetActiveConversation(p)
        \/ StartConversation(p)
        \/ AddInboundMessage(p)
        \/ LoadConfiguration(p)
        \/ GetRecentMessages(p)
        \/ GenerateConversation(p)
        \/ GenerateConversationFails(p)
        \/ AddOutboundMessage(p)
        \/ SendMessage(p)
        \/ SendMessageFails(p)
        \/ ExtractQualificationData(p)
        \/ MergeRead(p)
        \/ MergeWrite(p)
        \/ ExtractionFails(p)

SpecQualificationRace == InitConversations /\ [][NextQualificationRace]_vars

SpecRaceFair == SpecRace /\ \A p \in RaceProcs : WF_vars(TwilioIncoming(p))


(***************************************************************************)
(* Properties of POST /api/scheduling/meetings                             *)
(***************************************************************************)
MeetingsBy(p) == {m \in meetings : m.by = p}
EventsBy(p) == {e \in events : e.by = p}

\* C6: a request of a user with credentials whose availability re-check reported a
\* busy interval ends with 409 and has created no remote event, persisted no
\* meeting and written no lead status.
C6_ConflictStopsBooking ==
    \A p \in Procs :
        (book[p].calendarCredentials = "refresh_token" /\ book[p].busySlots # {}) =>
            /\ book[p].pc = "done"
            /\ book[p].status = 409
            /\ book[p].calls = <<"freebusy">>
            /\ EventsBy(p) = {}
            /\ MeetingsBy(p) = {}
            /\ book[p].overwrote = Null

\* C6 witness: a re-check that reported a busy interval, answered 409
C6_Witness ==
    \E p \in Procs :
        /\ book[p].calendarCredentials = "refresh_token"
        /\ book[p].busySlots # {}
        /\ book[p].status = 409

\* C7: every meeting persisted for a user with credentials carries the identifier of
\* a remote event the same request created, and a request whose event creation
\* failed has persisted nothing.
C7_MeetingHasRemoteEvent ==
    /\ \A m \in meetings :
        m.withCredentials = "refresh_token" =>
            \E e \in events : e.id = m.google_event_id /\ e.by = m.by
    /\ \A p \in Procs :
        (book[p].calendarCredentials = "refresh_token" /\ EventsBy(p) = {}) => MeetingsBy(p) = {}

\* C7 witness: one request persisted a meeting with its remote event, and another
\* request's event creation failed
C7_Witness ==
    /\ \E m \in meetings : m.withCredentials = "refresh_token" /\ m.google_event_id # Null
    /\ \E p \in Procs :
        /\ book[p].calls = <<"freebusy", "insert">>
        /\ book[p].googleEventId = Null
        /\ book[p].status = 500

C9_StatusOnlyFromNew ==
    \A p \in Procs :
        /\ (book[p].overwrote # Null /\ book[p].overwrote # "qualified") =>
                book[p].overwrote = "new"
        /\ (book[p].status = 201 /\ book[p].leadStatusRead = "new") =>
                book[p].overwrote # Null
        /\ (book[p].status \notin {0, 201}) => book[p].overwrote = Null

(***************************************************************************)
(* Properties of processIncomingMessage                                    *)
(***************************************************************************)
Range(seq) == {seq[i] : i \in 1..Len(seq)}
TouchedBy(p) ==
    {r \in Range(conversations) \cup Range(messages) \cup Range(generated) \cup Range(sent) :
        r.by = p}

LeadNotFound == "Lead not found for this phone number"

\* C10: a pipeline called with a phone number that no lead has ends with the
\* lead-not-found error, and it creates no conversation, persists no message, makes
\* no generation call and sends no reply.
C10_UnknownPhoneTouchesNothing ==
    \A p \in InProcs :
        (inb[p].pc # "idle" /\ inb[p].phone # Null
            /\ \A l \in Leads : LeadPhone(l) # inb[p].phone) =>
            /\ inb[p].pc \in {"leads", "done"}
            /\ inb[p].pc = "done" => inb[p].result = LeadNotFound
            /\ inb[p].lead = Null
            /\ inb[p].conversation = Null
            /\ TouchedBy(p) = {}

\* C10 witness: a pipeline for an unknown phone number has failed, after an earlier
\* pipeline has filled the store
C10_Witness ==
    \E p \in InProcs :
        /\ inb[p].phone = "+999"
        /\ inb[p].result = LeadNotFound
        /\ messages # <<>>

InboundBy(p) == {m \in Range(messages) : m.by = p /\ m.is_from_lead}
OutboundBy(p) == {m \in Range(messages) : m.by = p /\ ~m.is_from_lead}
SentBy(p) == {m \in Range(sent) : m.by = p}

GenerationFailed == "Failed to generate response from AI"

\* C11: a pipeline whose generation call failed has persisted its inbound message
\* (is_from_lead = true), has persisted no outbound message, has sent nothing, has
\* not run the extraction, and its webhook request was acknowledged.
C11_GenerationFailureStopsReply ==
    \A p \in InProcs :
        inb[p].result = GenerationFailed =>
            /\ \E m \in InboundBy(p) : m.content = inb[p].message
            /\ OutboundBy(p) = {}
            /\ SentBy(p) = {}
            /\ inb[p].extraction = "none"
            /\ inb[p].ack = 1

\* C11 witness: a pipeline has ended with the generation failure
C11_Witness ==
    \E p \in InProcs : inb[p].result = GenerationFailed /\ inb[p].pc = "done"

(***************************************************************************)
(* Properties of POST /api/webhooks/twilio/incoming                        *)
(***************************************************************************)

\* C12: every request the webhook receives is acknowledged, exactly once, whatever
\* its payload and whatever the outcome of its pipeline; the acknowledgment is given
\* in the step that starts the pipeline (or fails to), never after a pipeline step,
\* and no later step of the pipeline changes it.
C12_AlwaysAcknowledged ==
    /\ [](\A p \in RaceProcs :
            /\ inb[p].ack \in {0, 1}
            /\ inb[p].pc \notin {"idle", "received"} => inb[p].ack = 1)
    /\ [][\A p \in RaceProcs :
            inb'[p].ack # inb[p].ack =>
                /\ inb[p].pc = "received"
                /\ inb'[p].pc = "leads" \/ inb'[p].result = "not started"]_vars
    /\ \A p \in RaceProcs : (inb[p].pc = "received") ~> (inb[p].ack = 1)

\* C12 witness: one request is acknowledged while its pipeline has not finished, and
\* another is acknowledged and its pipeline has failed
C12_Witness ==
    \E p, q \in RaceProcs :
        /\ inb[p].ack = 1 /\ inb[p].pc = "leads"
        /\ inb[q].ack = 1 /\ inb[q].result = "Failed to send message"

(***************************************************************************)
(* Properties of the conversation life cycle                               *)
(***************************************************************************)
ActiveOf(leadId) ==
    {i \in 1..Len(conversations) :
        conversations[i].lead_id = leadId /\ conversations[i].status = "active"}

CreatedBy(p) == {c \in Range(conversations) : c.by = p}

\* C13: (1) no step changes a closed conversation or removes a conversation, and
\* every new conversation is created active; (2) a pipeline that looks up the
\* conversation of a lead that has no active conversation (all closed, or none) goes
\* on to create one; (3) the conversation a pipeline created belongs to its lead, is
\* none of the conversations that existed before, and is the one its inbound message
\* is attached to.
C13_ClosedNeverReopened ==
    /\ [][/\ Len(conversations') >= Len(conversations)
          /\ \A i \in 1..Len(conversations) :
                /\ conversations'[i].id = conversations[i].id
                /\ conversations[i].status = "closed" => conversations'[i].status = "closed"
          /\ \A i \in (Len(conversations) + 1)..Len(conversations') :
                /\ conversations'[i].status = "active"
                /\ \A j \in 1..Len(conversations) :
                        conversations'[i].id # conversations[j].id]_vars
    /\ [][\A p \in RouteProcs :
            (inb[p].pc = "conversation" /\ inb'[p].pc # "conversation"
                /\ ActiveOf(inb[p].lead) = {}) => inb'[p].pc = "start"]_vars
    /\ [](\A p \in RouteProcs :
            /\ inb[p].pc = "start" => CreatedBy(p) = {}
            /\ \A c \in CreatedBy(p) :
                /\ c.lead_id = inb[p].lead
                /\ inb[p].conversation = c.id
                /\ \A m \in InboundBy(p) : m.conversation_id = c.id
            /\ (CreatedBy(p) # {} /\ inb[p].pc \notin {"inbound"}) => InboundBy(p) # {})

\* C13 witness: lead "L1" has a closed conversation, and a later inbound message was
\* attached to a new, active conversation of the lead
C13_Witness ==
    \E p \in RouteProcs, i, j \in 1..Len(conversations) :
        /\ i < j
        /\ conversations[i].lead_id = "L1" /\ conversations[i].status = "closed"
        /\ conversations[j].lead_id = "L1" /\ conversations[j].status = "active"
        /\ conversations[j].by = p
        /\ \E m \in InboundBy(p) : m.conversation_id = conversations[j].id

\* C14: every lead has at most one conversation with status active.
C14_AtMostOneActive ==
    \A c \in Range(conversations) : Cardinality(ActiveOf(c.lead_id)) <= 1

(***************************************************************************)
(* Properties of the reply of processIncomingMessage                       *)
(***************************************************************************)
SendFailed == "Failed to send message"

\* C15: a pipeline whose extraction step failed (reading the messages, reading the
\* lead, or writing the merged map) has returned its normal result, and its reply
\* is persisted and was handed to the gateway.
C15_ExtractionFailureSwallowed ==
    \A p \in InProcs :
        inb[p].extraction = "failed" =>
            /\ inb[p].pc = "done"
            /\ inb[p].result = "ok"
            /\ \E m \in OutboundBy(p) : m.content = inb[p].aiResponse
            /\ \E m \in SentBy(p) : m.body = inb[p].aiResponse

\* C15 witness: a pipeline whose extraction failed has returned
C15_Witness ==
    \E p \in InProcs : inb[p].extraction = "failed" /\ inb[p].pc = "done"

\* C16: a pipeline that is about to dispatch, has dispatched, or has failed to
\* dispatch its reply has the reply persisted as an outbound message of its
\* conversation, and no step removes or changes a persisted message.
C16_PersistedBeforeDispatch ==
    /\ [](\A p \in InProcs :
            (inb[p].pc = "send" \/ SentBy(p) # {} \/ inb[p].result = SendFailed) =>
                \E m \in OutboundBy(p) :
                    /\ m.content = inb[p].aiResponse
                    /\ m.conversation_id = inb[p].conversation
                    /\ \A t \in SentBy(p) : t.body = m.content)
    /\ [][/\ Len(messages') >= Len(messages)
          /\ \A i \in 1..Len(messages) : messages'[i] = messages[i]]_vars

\* C16 witness: a dispatch has failed and the reply is in the messages table
C16_Witness ==
    \E p \in InProcs :
        /\ inb[p].result = SendFailed
        /\ SentBy(p) = {}
        /\ OutboundBy(p) # {}

(***************************************************************************)
(* Properties of the instruction sequence of generateConversation          *)
(***************************************************************************)

\* C17: in every instruction sequence handed to the generator, the entry of a
\* history message stored with is_from_lead = true is tagged "user", the entry of
\* one stored with is_from_lead = false is tagged "assistant", and the entries keep
\* the order and the content of the history.
C17_RoleFollowsStoredFlag ==
    \A g \in Range(generated) :
        \A i \in 1..Len(g.conversationHistory) :
            /\ g.messages[i + 1].content = g.conversationHistory[i].content
            /\ g.messages[i + 1].role =
                    IF g.conversationHistory[i].is_from_lead THEN "user" ELSE "assistant"

\* the rows of a history are rows of one conversation, in ascending creation order,
\* and no row of the conversation outside the history is newer than one inside
MostRecentOf(history, conversationId) ==
    /\ \A i \in 1..Len(history) :
            /\ history[i] \in Range(messages)
            /\ history[i].conversation_id = conversationId
    /\ \A i, j \in 1..Len(history) : i < j => history[i].created_at < history[j].created_at
    /\ \A m \in Range(messages) :
            (m.conversation_id = conversationId /\ m \notin Range(history)) =>
                /\ Len(history) = HistoryLimit
                /\ \A i \in 1..Len(history) : m.created_at < history[i].created_at

\* C18: the history a pipeline has read is at most 20 rows, the most recently created
\* ones of its conversation in ascending creation order; the generator is called
\* with that history, and the sequence it receives is one "system" instruction at
\* the front, one entry per history row in the same order, none of them "system",
\* and one final "user" instruction with the inbound text of the pipeline.
C18_InstructionSequenceShape ==
    /\ [](\A p \in InProcs :
            inb[p].pc = "generate" =>
                /\ Len(inb[p].conversationHistory) <= HistoryLimit
                /\ MostRecentOf(inb[p].conversationHistory, inb[p].conversation))
    /\ [][Len(generated') > Len(generated) =>
            LET g == generated'[Len(generated')]
            IN  /\ inb[g.by].pc = "generate"
                /\ g.conversationHistory = inb[g.by].conversationHistory]_vars
    /\ [](\A g \in Range(generated) :
            LET n == Len(g.conversationHistory)
            IN  /\ n <= HistoryLimit
                /\ Len(g.messages) = n + 2
                /\ g.messages[1].role = "system"
                /\ \A i \in 2..(n + 2) : g.messages[i].role # "system"
                /\ \A i \in 1..n : g.messages[i + 1].content = g.conversationHistory[i].content
                /\ g.messages[n + 2] = [role |-> "user", content |-> inb[g.by].message])

\* C18 witness: a generation call for a conversation of more than 20 messages, with
\* a history of exactly 20
C18_Witness ==
    \E g \in Range(generated) :
        /\ Len(g.conversationHistory) = HistoryLimit
        /\ g.conversationHistory[1].created_at > 1
        /\ g.conversationHistory[HistoryLimit].content = g.userMessage

\* C20: every reply a pipeline hands to the gateway goes out on the contact_channel
\* of the lead the pipeline resolved.
C20_DispatchOnLeadChannel ==
    \A p \in InProcs : \A m \in SentBy(p) : m.channel = LeadChannel(inb[p].lead)

(***************************************************************************)
(* Properties of sendMessage                                               *)
(***************************************************************************)
SentByStart(k) == {m \in Range(sent) : m.by = 0 - k}

\* the start requests that reached the call of sendMessage
Called == {k \in 1..Len(started) : started[k].status # 404 /\ started[k].phone # Null}

\* C19, as stated: a call of sendMessage delivers when its channel is "whatsapp" or
\* "sms", and for every other channel value it fails with the unsupported-channel
\* error and sends nothing.
C19_OnlyWhatsappOrSms ==
    \A k \in Called :
        IF started[k].channel \in {"whatsapp", "sms"}
        THEN started[k].error = Null /\ SentByStart(k) # {}
        ELSE started[k].error = UnsupportedChannel /\ SentByStart(k) = {}

\* C19, amended: a call of sendMessage delivers when its channel, in lower case, is
\* "whatsapp" or "sms", through the sender of that name; for every other channel
\* value it fails with the unsupported-channel error and sends nothing.
C19_LowerCasedChannelDecides ==
    /\ \A k \in Called :
        IF ToLowerCase(started[k].channel) \in {"whatsapp", "sms"}
        THEN /\ started[k].error = Null
             /\ SentByStart(k) # {}
             /\ \A m \in SentByStart(k) : m.channel = ToLowerCase(started[k].channel)
        ELSE started[k].error = UnsupportedChannel /\ SentByStart(k) = {}
    /\ \A m \in Range(sent) : m.channel \in {"whatsapp", "sms"}

\* C19 witness: one start request with channel "email" failed as unsupported and
\* sent nothing, and one with channel "SMS" was delivered
C19_Witness ==
    \E j, k \in Called :
        /\ started[j].channel = "email"
        /\ started[j].error = UnsupportedChannel /\ SentByStart(j) = {}
        /\ started[k].channel = "SMS"
        /\ SentByStart(k) # {}

(***************************************************************************)
(* More properties of processIncomingMessage                               *)
(***************************************************************************)
GeneratedBy(p) == {g \in Range(generated) : g.by = p}

\* C24: a pipeline that has ended and whose resolved lead belongs to a business
\* without assistant configuration has failed with the configuration-missing error;
\* a pipeline that failed with it has persisted its inbound message, has made no
\* generation call, has persisted no outbound message and has sent nothing.
C24_ConfigurationMissingStops ==
    \A p \in InProcs :
        /\ (inb[p].pc = "done" /\ inb[p].lead # Null
                /\ ~HasAssistantConfig(LeadBusiness(inb[p].lead))) =>
                inb[p].result = ConfigurationMissing
        /\ inb[p].result = ConfigurationMissing =>
                /\ \E m \in InboundBy(p) : m.content = inb[p].message
                /\ GeneratedBy(p) = {}
                /\ OutboundBy(p) = {}
                /\ SentBy(p) = {}

\* C24 witness: a pipeline has failed with the configuration-missing error
C24_Witness ==
    \E p \in InProcs :
        /\ inb[p].pc = "done"
        /\ inb[p].lead = "L2"
        /\ inb[p].result = ConfigurationMissing

\* C28: the history handed to the generator does not contain the inbound message
\* of the same pipeline, which is also the final "user" instruction.
C28_InboundTextOnce ==
    \A g \in Range(generated) :
        \A i \in 1..Len(g.conversationHistory) :
            ~(g.conversationHistory[i].by = g.by /\ g.conversationHistory[i].is_from_lead)

\* C30: a pipeline that has ended and has persisted its reply has run the extraction,
\* whether the dispatch of the reply succeeded or failed.
C30_ExtractionDespiteSendFailure ==
    \A p \in InProcs :
        (inb[p].pc = "done" /\ OutboundBy(p) # {}) => inb[p].extraction # "none"

(***************************************************************************)
(* Properties of the qualification map                                     *)
(***************************************************************************)
\* what extractQualificationData computes from the stored messages of a conversation
Extracted(conversationId) ==
    ExtractFields({}, RequiredFields, FirstN(MessagesOf(conversationId), MessagesLimit), 1)

\* the step in which the extraction of pipeline p stores its map
StoresExtraction(p) ==
    /\ inb[p].pc = "mergeWrite"
    /\ inb[p].conversation # Null
    /\ inb'[p].pc = "done"
    /\ inb'[p].extraction = "ran"

C22_FieldsNeverShrink ==
    [][/\ \A l \in Leads : Keys(qualification[l]) \subseteq Keys(qualification'[l])
       /\ \A p \in InProcs :
            (inb[p].pc = "extract" /\ inb'[p].pc = "done" /\ inb'[p].extraction = "ran") =>
                /\ Extracted(inb[p].conversation) = {}
                /\ qualification' = qualification]_vars

\* C22 witness: a route request has merged its field into a map that an extraction
\* had written, and an extraction that found nothing has run
C22_Witness ==
    \E p, q \in InProcs :
        /\ inb[p].pc = "done" /\ inb[p].conversation # Null
        /\ inb[p].extraction = "ran" /\ inb[p].message = "My budget is $5,000"
        /\ inb[q].pc = "done" /\ inb[q].conversation = Null /\ inb[q].result = "ok"
        /\ Keys(qualification["L1"]) = {"budget", "timeline"}

\* C29: when a route request and a pipeline that ran at the same time have both
\* merged into the map of the same lead, the stored map has the fields of both.
C29_NoFieldLost ==
    \A p, q \in RaceProcs :
        (/\ inb[p].pc = "done" /\ inb[p].result = "ok"
         /\ inb[p].conversation = Null /\ inb[p].lead # Null
         /\ inb[q].pc = "done" /\ inb[q].result = "ok"
         /\ inb[q].conversation # Null /\ inb[q].lead = inb[p].lead
         /\ inb[q].extraction = "ran" /\ Extracted(inb[q].conversation) # {}) =>
            Keys(inb[p].req.qualificationData) \cup Keys(Extracted(inb[q].conversation))
                \subseteq Keys(qualification[inb[p].lead])

(***************************************************************************)
(* Which messages the extraction reads                                     *)
(***************************************************************************)
\* the map that the two loops compute from the rows that the query returns for a
\* conversation with the stored messages msgs
ExtractionOf(msgs) == ExtractFields({}, RequiredFields, FirstN(msgs, MessagesLimit), 1)

\* the conversation with its assistant messages left out
LeadAuthored(msgs) == SelectSeq(msgs, LAMBDA m : m.is_from_lead)

\* C26: a conversation and the conversation with the same lead messages in the same
\* order and no assistant messages yield the same extracted map.
C26_OnlyLeadMessagesMatter ==
    \A i \in 1..Len(conversations) :
        LET msgs == MessagesOf(conversations[i].id)
        IN  ExtractionOf(msgs) = ExtractionOf(LeadAuthored(msgs))

\* C27: the extraction computes what the scan of every stored message of the
\* conversation computes, whatever the length of the conversation.
C27_EveryLeadMessageScanned ==
    \A i \in 1..Len(conversations) :
        LET msgs == MessagesOf(conversations[i].id)
        IN  ExtractionOf(msgs) = ExtractFields({}, RequiredFields, msgs, 1)

(***************************************************************************)
(* More properties of the booking route                                    *)
(***************************************************************************)
\* C23: every stored meeting ends strictly after it starts.
C23_EndAfterStart == \A m \in meetings : m.end_time > m.start_time

Overlaps(e, p) == e.start < book[p].endTime /\ e.end > book[p].startTime

\* C25: a request whose availability re-check answers while the calendar already
\* holds the event that another request created for an overlapping window ends with
\* the conflict outcome and creates nothing; only requests whose re-checks both
\* answered before either event was created can both book the window.
C25_RecheckAfterBookingConflicts ==
    [][\A p \in Procs :
        (/\ book[p].pc = "check"
         /\ book'[p].calls = Append(book[p].calls, "freebusy")
         /\ book'[p].busySlots # {} \/ book'[p].pc = "create"
         /\ \E e \in events : e.by # p /\ Overlaps(e, p)) =>
            /\ book'[p].pc = "done"
            /\ book'[p].status = 409
            /\ events' = events
            /\ meetings' = meetings]_vars

\* C25 witness: two requests of a user with credentials have each created a remote
\* event and a scheduled meeting for the same window
C25_Witness ==
    \E p, q \in Procs :
        /\ p # q
        /\ \E e \in EventsBy(p), f \in EventsBy(q) : e.start = f.start /\ e.end = f.end
        /\ \E m \in MeetingsBy(p), n \in MeetingsBy(q) :
            /\ m.start_time = n.start_time /\ m.end_time = n.end_time
            /\ m.status = "scheduled" /\ n.status = "scheduled"
            /\ m.withCredentials = "refresh_token" /\ n.withCredentials = "refresh_token"
            /\ m.google_event_id # Null /\ n.google_event_id # Null

====
